---------------------------- MODULE Spec2Model ----------------------------
(* Dream Recorder: the entry store of App.tsx (in-memory list mirrored to   *)
(* localStorage['dream_journal']), the recording-completion handler, the    *)
(* view controller, the interpretation workflow, the DreamCard edits and    *)
(* the filtered, date-grouped list.                                         *)
(* One action is one event-loop turn of the application: an event handler   *)
(* or a promise continuation, followed by the re-render and the effects it  *)
(* triggers.                                                                *)
EXTENDS Naturals, Sequences, FiniteSets, TLC

\* ------------------------------------------------------------------ bounds
\* Recordings per session: entries in the store plus recordings still on
\* their way to it.
MaxDreams == 2
\* List-view operations (edits, tag changes, illustration requests, searches)
\* per run; it bounds the length of a tag list and the illustration requests
\* in flight.
MaxEdits == 2
\* Largest value the millisecond clock takes: every recording can be given
\* a millisecond of its own, or share one.
MaxClock == MaxDreams - 1

\* -------------------------------------------------------------- constants
autoTranscribe == TRUE

Views == {"home", "list", "interpretation"}

AudioPayload == "data:audio/webm;base64,AAAA"
ImagePayload == "data:image/png;base64,IMG"

\* What the model's answers hold when the call succeeds.
RealAnalysis ==
    [transcription |-> "I was flying", tags |-> <<"Flying">>,
     mood |-> "Calm", lucidityScore |-> 7]
FallbackAnalysis ==
    [transcription |-> "Analysis failed. Please try again later.",
     tags |-> <<"Error">>, mood |-> "Unknown", lucidityScore |-> 0]

\* Text the user types into a card, and the tag the user adds.
UserTexts == {"edited"}
UserTags == {"Water"}
\* What the user types into the tag box, and into the search box.
NewTagInputs == UserTags \cup {" Water ", "  "}
Queries == {"", "FLY"}

VARIABLES
    mountPc,               \* where the mount sequence of App stands
    queued,                \* setDreams queued by the load effect, not yet rendered
    view,                  \* useState<AppView>
    dreams,                \* useState<DreamEntry[]>, newest first
    storage,               \* localStorage.getItem('dream_journal')
    isProcessing,          \* useState(false), App
    isRecording,           \* useState(false), the mounted RecorderButton
    orphans,               \* MediaRecorders still recording whose button unmounted
    stopping,              \* MediaRecorders stopped, 'stop' event not yet fired
    reading,               \* handleRecordingComplete calls awaiting blobToBase64
    analyzing,             \* newDream.id of each call awaiting analyzeDreamAudio
    selectedDreamIds,      \* useState<string[]>
    isInterpreting,        \* useState(false)
    interpretationResult,  \* <<>> is null, <<s>> is the string s
    interpReqs,            \* interpretDreams calls not yet resolved
    searchQuery,           \* useState("")
    imgReqs,               \* generateDreamImage calls not yet resolved
    generating,            \* cards (by position) whose isGeneratingImg is true
    edits,                 \* list-view operations made so far
    alerts,                \* alert() calls made by this page
    prevSession,           \* history: the collection in memory when the page
                           \* was last closed at rest, until the store changes
    now                    \* Date.now()

vars == <<mountPc, queued, view, dreams, storage, isProcessing, isRecording,
          orphans, stopping, reading, analyzing, selectedDreamIds,
          isInterpreting, interpretationResult, interpReqs, searchQuery,
          imgReqs, generating, edits, alerts, prevSession, now>>

recVars == <<isRecording, orphans, stopping, reading, analyzing>>
interpVars == <<selectedDreamIds, isInterpreting, interpretationResult,
                interpReqs>>
cardVars == <<searchQuery, imgReqs, generating, edits, alerts>>
storeVars == <<dreams, storage>>
mountVars == <<mountPc, queued>>
envVars == <<prevSession, now>>

\* ---------------------------------------------------------------- helpers
\* Object spread {...a, ...b}.
Merge(a, b) ==
    [k \in DOMAIN a \cup DOMAIN b |-> IF k \in DOMAIN b THEN b[k] ELSE a[k]]

RemoveAt(s, i) == [j \in 1..(Len(s) - 1) |-> IF j < i THEN s[j] ELSE s[j + 1]]

Includes(s, x) == \E i \in 1..Len(s) : s[i] = x

\* ------------------------------------------------------------------- text
\* The characters of the strings that occur: entry texts, tags, typed input,
\* and the names toLocaleDateString writes.
CharsOf ==
       ("" :> <<>>)
    @@ ("I was flying" :>
          <<"I", " ", "w", "a", "s", " ", "f", "l", "y", "i", "n", "g">>)
    @@ ("Analysis failed. Please try again later." :>
          <<"A", "n", "a", "l", "y", "s", "i", "s", " ", "f", "a", "i", "l",
            "e", "d", ".", " ", "P", "l", "e", "a", "s", "e", " ", "t", "r",
            "y", " ", "a", "g", "a", "i", "n", " ", "l", "a", "t", "e", "r",
            ".">>)
    @@ ("Processing..." :>
          <<"P", "r", "o", "c", "e", "s", "s", "i", "n", "g", ".", ".", ".">>)
    @@ ("edited" :> <<"e", "d", "i", "t", "e", "d">>)
    @@ ("Flying" :> <<"F", "l", "y", "i", "n", "g">>)
    @@ ("Error" :> <<"E", "r", "r", "o", "r">>)
    @@ ("Water" :> <<"W", "a", "t", "e", "r">>)
    @@ (" Water " :> <<" ", "W", "a", "t", "e", "r", " ">>)
    @@ ("  " :> <<" ", " ">>)
    @@ ("FLY" :> <<"F", "L", "Y">>)
    @@ ("LATER" :> <<"L", "A", "T", "E", "R">>)
    @@ ("err" :> <<"e", "r", "r">>)
    @@ ("g w" :> <<"g", " ", "w">>)
    @@ ("friday" :> <<"f", "r", "i", "d", "a", "y">>)
    @@ ("january" :> <<"j", "a", "n", "u", "a", "r", "y">>)
    @@ ("zzz" :> <<"z", "z", "z">>)
    @@ ("Sunday" :> <<"S", "u", "n", "d", "a", "y">>)
    @@ ("Monday" :> <<"M", "o", "n", "d", "a", "y">>)
    @@ ("Tuesday" :> <<"T", "u", "e", "s", "d", "a", "y">>)
    @@ ("Wednesday" :> <<"W", "e", "d", "n", "e", "s", "d", "a", "y">>)
    @@ ("Thursday" :> <<"T", "h", "u", "r", "s", "d", "a", "y">>)
    @@ ("Friday" :> <<"F", "r", "i", "d", "a", "y">>)
    @@ ("Saturday" :> <<"S", "a", "t", "u", "r", "d", "a", "y">>)
    @@ ("January" :> <<"J", "a", "n", "u", "a", "r", "y">>)
    @@ ("February" :> <<"F", "e", "b", "r", "u", "a", "r", "y">>)

Chars(s) == CharsOf[s]

\* The string with the given characters.
Str(cs) == CHOOSE s \in DOMAIN CharsOf : CharsOf[s] = cs

UpperCase ==
    <<"A", "B", "C", "D", "E", "F", "G", "H", "I", "J", "K", "L", "M",
      "N", "O", "P", "Q", "R", "S", "T", "U", "V", "W", "X", "Y", "Z">>
LowerCase ==
    <<"a", "b", "c", "d", "e", "f", "g", "h", "i", "j", "k", "l", "m",
      "n", "o", "p", "q", "r", "s", "t", "u", "v", "w", "x", "y", "z">>

LowerOf ==
    [c \in {UpperCase[k] : k \in 1..Len(UpperCase)} |->
        LowerCase[CHOOSE k \in 1..Len(UpperCase) : UpperCase[k] = c]]

LowerChar(c) == IF c \in DOMAIN LowerOf THEN LowerOf[c] ELSE c

\* String.prototype.toLowerCase, on characters.
toLowerCase(cs) == [k \in 1..Len(cs) |-> LowerChar(cs[k])]

\* String.prototype.includes, on characters.
includes(cs, part) ==
    \E k \in 0..(Len(cs) - Len(part)) :
        \A j \in 1..Len(part) : cs[k + j] = part[j]

\* Array.prototype.join(sep), on characters.
RECURSIVE join(_, _)
join(strs, sep) ==
    IF Len(strs) = 0 THEN <<>>
    ELSE IF Len(strs) = 1 THEN Chars(strs[1])
    ELSE Chars(strs[1]) \o sep \o join(Tail(strs), sep)

IsSpace(c) == c = " "

\* String.prototype.trim
RECURSIVE trimStart(_)
trimStart(cs) ==
    IF Len(cs) > 0 /\ IsSpace(cs[1]) THEN trimStart(Tail(cs)) ELSE cs

RECURSIVE trimEnd(_)
trimEnd(cs) ==
    IF Len(cs) > 0 /\ IsSpace(cs[Len(cs)])
    THEN trimEnd(SubSeq(cs, 1, Len(cs) - 1)) ELSE cs

trim(s) == Str(trimEnd(trimStart(Chars(s))))

\* ------------------------------------------------------------------- dates
\* new Date(timestamp).toLocaleDateString(undefined, {weekday: 'long',
\* month: 'long', day: 'numeric'}) in an English locale at UTC, for the
\* instants of January and February 1970: "Thursday, January 1".
MsPerDay == 86400000

WeekdayNames ==
    <<"Sunday", "Monday", "Tuesday", "Wednesday", "Thursday", "Friday",
      "Saturday">>

DigitChars == <<"0", "1", "2", "3", "4", "5", "6", "7", "8", "9">>

NumberChars(n) ==
    IF n < 10 THEN <<DigitChars[n + 1]>>
    ELSE <<DigitChars[(n \div 10) + 1], DigitChars[(n % 10) + 1]>>

toLocaleDateString(timestamp) ==
    LET day == timestamp \div MsPerDay
        weekday == WeekdayNames[((day + 4) % 7) + 1]
        month == IF day < 31 THEN "January" ELSE "February"
        dayOfMonth == IF day < 31 THEN day + 1 ELSE day - 30
    IN  Chars(weekday) \o <<",", " ">> \o Chars(month) \o <<" ">>
            \o NumberChars(dayOfMonth)

\* ------------------------------------------------------------------- JSON
\* The text JSON.stringify writes is kept as its token tree: an array of
\* objects, each a list of <<key, <<type, value>>>> members in insertion
\* order.  Text that is no JSON is [kind |-> "garbage"].
FieldOrder ==
    <<"id", "timestamp", "audioBase64", "transcription", "tags", "mood",
      "lucidityScore", "isProcessing", "generatedImage">>

JsonOfField(k, v) ==
    CASE k \in {"timestamp", "lucidityScore"} -> <<"number", v>>
      [] k = "isProcessing" -> <<"boolean", v>>
      [] k = "tags" -> <<"array", [i \in 1..Len(v) |-> <<"string", v[i]>>]>>
      [] OTHER -> <<"string", v>>

JsonOfEntry(e) ==
    LET keys == SelectSeq(FieldOrder, LAMBDA k : k \in DOMAIN e)
    IN  [i \in 1..Len(keys) |-> <<keys[i], JsonOfField(keys[i], e[keys[i]])>>]

JSONstringify(ds) ==
    [kind |-> "json", items |-> [i \in 1..Len(ds) |-> JsonOfEntry(ds[i])]]

\* Mutant: array members are kept as tokens, not unwrapped.
ValueOfJsonShallow(j) == j[2]

ValueOfJson(j) ==
    IF j[1] = "array" THEN [i \in 1..Len(j[2]) |-> j[2][i][2]] ELSE j[2]

EntryOfJson(obj) ==
    LET keys == {obj[i][1] : i \in 1..Len(obj)}
    IN  [k \in keys |->
            LET i == CHOOSE n \in 1..Len(obj) : obj[n][1] = k
            IN  ValueOfJson(obj[i][2])]

\* JSON.parse: [ok |-> FALSE] stands for the SyntaxError it throws.
JSONparse(text) ==
    IF text.kind = "json"
    THEN [ok |-> TRUE,
          value |-> [i \in 1..Len(text.items) |-> EntryOfJson(text.items[i])]]
    ELSE [ok |-> FALSE]

\* localStorage values: null (no record), "" and text.
NoRecord == [kind |-> "null"]
EmptyText == [kind |-> "empty"]
Garbage == [kind |-> "garbage"]

Truthy(saved) == saved.kind \notin {"null", "empty"}

\* ------------------------------------------------------- filter and group
\* Mutant: the entry's texts are compared as they are written.
PassesCaseSensitive(d, query) ==
    LET q == toLowerCase(Chars(query))
        dateStr == toLocaleDateString(d.timestamp)
        tagsStr == join(d.tags, <<" ">>)
        text == Chars(d.transcription)
    IN  \/ q = <<>>
        \/ includes(text, q) \/ includes(tagsStr, q) \/ includes(dateStr, q)

\* The callback of dreams.filter; query is searchQuery as typed.
Passes(d, query) ==
    LET q == toLowerCase(Chars(query))
        dateStr == toLowerCase(toLocaleDateString(d.timestamp))
        tagsStr == toLowerCase(join(d.tags, <<" ">>))
        text == toLowerCase(Chars(d.transcription))
    IN  \/ q = <<>>
        \/ includes(text, q) \/ includes(tagsStr, q) \/ includes(dateStr, q)

filtered(ds, query) == SelectSeq(ds, LAMBDA d : Passes(d, query))

\* Mutant: every entry starts a group of its own.
GroupStepAlwaysNew(acc, dream) ==
    Append(acc, [date |-> toLocaleDateString(dream.timestamp),
                 dreams |-> <<dream>>])

\* The callback of filtered.reduce: push to the first group with the entry's
\* date, or start a group.
GroupStep(acc, dream) ==
    LET dateKey == toLocaleDateString(dream.timestamp)
        found == {g \in 1..Len(acc) : acc[g].date = dateKey}
    IN  IF found # {}
        THEN LET existingGroup == CHOOSE g \in found : \A h \in found : g <= h
             IN  [acc EXCEPT ![existingGroup].dreams = Append(@, dream)]
        ELSE Append(acc, [date |-> dateKey, dreams |-> <<dream>>])

RECURSIVE reduce(_, _)
reduce(acc, rest) ==
    IF rest = <<>> THEN acc ELSE reduce(GroupStep(acc, Head(rest)), Tail(rest))

\* The useMemo over [dreams, searchQuery].
groupedDreams(ds, query) == reduce(<<>>, filtered(ds, query))

\* Mutant: the filter result is looked at first.
ListBodyFilterFirst(ds, query) ==
    IF Len(groupedDreams(ds, query)) = 0 THEN {"No dreams found."}
    ELSE IF Len(ds) = 0 THEN {"The void is silent."}
    ELSE {"groups"}

\* What renderList puts below the search box.
ListBody(ds, query) ==
    IF Len(ds) = 0 THEN {"The void is silent."}
    ELSE IF Len(groupedDreams(ds, query)) = 0 THEN {"No dreams found."}
    ELSE {"groups"}

\* The cards the list renders, each named by its entry's position counted
\* from the oldest entry.
MountedPos(ds, v, query) ==
    IF v = "list"
    THEN {Len(ds) - i + 1 : i \in {k \in 1..Len(ds) : Passes(ds[k], query)}}
    ELSE {}

\* A render of the list from ds, v and query: a card that is no longer
\* rendered is unmounted and its isGeneratingImg is gone with it; the calls
\* it made stay outstanding.
RenderWith(gen, reqs, ds, v, query) ==
    IF gen = {} /\ reqs = <<>>
    THEN generating' = {} /\ imgReqs' = <<>>
    ELSE LET m == MountedPos(ds, v, query)
         IN  /\ generating' = gen \cap m
             /\ imgReqs' = [j \in 1..Len(reqs) |->
                              IF reqs[j].pos \in m THEN reqs[j]
                              ELSE [reqs[j] EXCEPT !.mounted = FALSE]]

\* ------------------------------------------------------------------ store
NoUpdate == [set |-> FALSE]

\* Mutant: the save effect runs on mount only (dependency list []).
CommitWithoutSave(ds) ==
    /\ dreams' = ds
    /\ UNCHANGED storage
    /\ prevSession' = IF mountPc = "ready" THEN NoUpdate ELSE prevSession

\* A re-render with a new dreams array, and the save effect that follows it.
Commit(ds) ==
    /\ dreams' = ds
    /\ storage' = JSONstringify(ds)
    /\ prevSession' = IF mountPc = "ready" THEN NoUpdate ELSE prevSession

\* prev.map(d => d.id === updatedDream.id ? updatedDream : d)
UpdateById(prev, updatedDream) ==
    [i \in 1..Len(prev) |->
        IF prev[i].id = updatedDream.id THEN updatedDream ELSE prev[i]]

\* setView(v), rendered with the collection ds: the unmount of the
\* RecorderButton leaves its MediaRecorder running; the unmount of the cards
\* drops their isGeneratingImg.
LeaveView(v, ds) ==
    /\ IF view = "home" /\ v # "home" /\ isRecording
       THEN isRecording' = FALSE /\ orphans' = orphans + 1
       ELSE UNCHANGED <<isRecording, orphans>>
    /\ RenderWith(generating, imgReqs, ds, v, searchQuery)
    /\ view' = v

\* ------------------------------------------------------------------ mount
Init ==
    /\ mountPc = "loadEffect"
    /\ queued = NoUpdate
    /\ view = "home"
    /\ dreams = <<>>
    /\ storage \in {NoRecord, EmptyText, Garbage, JSONstringify(<<>>)}
    /\ isProcessing = FALSE
    /\ isRecording = FALSE
    /\ orphans = 0
    /\ stopping = 0
    /\ reading = 0
    /\ analyzing = <<>>
    /\ selectedDreamIds = <<>>
    /\ isInterpreting = FALSE
    /\ interpretationResult = <<>>
    /\ interpReqs = 0
    /\ searchQuery = ""
    /\ imgReqs = <<>>
    /\ generating = {}
    /\ edits = 0
    /\ alerts = 0
    /\ prevSession = NoUpdate
    /\ now = 0

\* The body of the load effect: what it queues, and whether it throws.
\* if (saved) { try { setDreams(JSON.parse(saved)) } catch (e) { log } }
\* Mutant: JSON.parse is called outside any try/catch.
LoadOutcomeNoCatch(saved) ==
    IF Truthy(saved)
    THEN IF JSONparse(saved).ok
         THEN [throws |-> FALSE,
               update |-> [set |-> TRUE, value |-> JSONparse(saved).value]]
         ELSE [throws |-> TRUE, update |-> NoUpdate]
    ELSE [throws |-> FALSE, update |-> NoUpdate]

LoadOutcome(saved) ==
    IF Truthy(saved)
    THEN IF JSONparse(saved).ok
         THEN [throws |-> FALSE,
               update |-> [set |-> TRUE, value |-> JSONparse(saved).value]]
         ELSE [throws |-> FALSE, update |-> NoUpdate]
    ELSE [throws |-> FALSE, update |-> NoUpdate]

\* useEffect(() => {...}, []) : the load effect.  An effect that throws
\* takes the whole tree down.
LoadEffect ==
    /\ mountPc = "loadEffect"
    /\ queued' = LoadOutcome(storage).update
    /\ mountPc' = IF LoadOutcome(storage).throws THEN "crashed"
                  ELSE "saveEffect"
    /\ UNCHANGED <<view, storeVars, isProcessing, recVars, interpVars,
                   cardVars, envVars>>

\* useEffect(() => {...}, [dreams]) after the first render: dreams is [].
SaveEffect ==
    /\ mountPc = "saveEffect"
    /\ storage' = JSONstringify(dreams)
    /\ mountPc' = IF queued.set THEN "render" ELSE "ready"
    /\ UNCHANGED <<queued, view, dreams, isProcessing, recVars, interpVars,
                   cardVars, envVars>>

\* The render of the queued setDreams(JSON.parse(saved)), and its save effect.
Rerender ==
    /\ mountPc = "render"
    /\ Commit(queued.value)
    /\ queued' = NoUpdate
    /\ mountPc' = "ready"
    /\ UNCHANGED <<view, isProcessing, recVars, interpVars, cardVars, now>>

\* The page is closed and opened again: only localStorage and the clock stay.
Reload ==
    /\ mountPc' = "loadEffect"
    /\ queued' = NoUpdate
    /\ view' = "home"
    /\ dreams' = <<>>
    /\ isProcessing' = FALSE
    /\ isRecording' = FALSE
    /\ orphans' = 0
    /\ stopping' = 0
    /\ reading' = 0
    /\ analyzing' = <<>>
    /\ selectedDreamIds' = <<>>
    /\ isInterpreting' = FALSE
    /\ interpretationResult' = <<>>
    /\ interpReqs' = 0
    /\ searchQuery' = ""
    /\ imgReqs' = <<>>
    /\ generating' = {}
    /\ alerts' = 0
    /\ prevSession' = IF mountPc = "ready"
                      THEN [set |-> TRUE, value |-> dreams] ELSE NoUpdate
    /\ UNCHANGED <<storage, edits, now>>

\* ------------------------------------------------------------- navigation
\* The nav bar is rendered only while isProcessing is false.
\* Mutant: the nav bar is rendered whatever isProcessing is.
NavigateAlways(v) ==
    /\ mountPc # "crashed"
    /\ LeaveView(v, dreams)
    /\ UNCHANGED <<mountVars, storeVars, isProcessing, stopping, reading,
                   analyzing, interpVars, searchQuery, edits, alerts,
                   envVars>>

Navigate(v) ==
    /\ mountPc # "crashed"
    /\ ~isProcessing
    /\ LeaveView(v, dreams)
    /\ UNCHANGED <<mountVars, storeVars, isProcessing, stopping, reading,
                   analyzing, interpVars, searchQuery, edits, alerts,
                   envVars>>

\* -------------------------------------------------------------- recording
Recordings ==
    Len(dreams) + Len(analyzing) + reading + stopping + orphans
        + (IF isRecording THEN 1 ELSE 0)

startRecording ==
    /\ mountPc = "ready"
    /\ view = "home" /\ ~isProcessing /\ ~isRecording
    /\ Recordings < MaxDreams
    /\ isRecording' = TRUE
    /\ UNCHANGED <<mountVars, view, storeVars, isProcessing, orphans, stopping,
                   reading, analyzing, interpVars, cardVars, envVars>>

stopRecording ==
    /\ view = "home" /\ ~isProcessing /\ isRecording
    /\ isRecording' = FALSE
    /\ stopping' = stopping + 1
    /\ UNCHANGED <<mountVars, view, storeVars, isProcessing, orphans, reading,
                   analyzing, interpVars, cardVars, envVars>>

\* Every track of an orphaned recorder's stream ends (device taken away,
\* capture interrupted): the recorder stops by itself.
TrackEnded ==
    /\ orphans > 0
    /\ orphans' = orphans - 1
    /\ stopping' = stopping + 1
    /\ UNCHANGED <<mountVars, view, storeVars, isProcessing, isRecording,
                   reading, analyzing, interpVars, cardVars, envVars>>

\* mediaRecorder.onstop -> handleRecordingComplete up to its first await.
onstop ==
    /\ stopping > 0
    /\ stopping' = stopping - 1
    /\ isProcessing' = TRUE
    /\ reading' = reading + 1
    /\ UNCHANGED <<mountVars, view, storeVars, isRecording, orphans, analyzing,
                   interpVars, cardVars, envVars>>

NewDream(t1, t2) ==
    [id |-> ToString(t1), timestamp |-> t2, audioBase64 |-> AudioPayload,
     transcription |-> "Processing...", tags |-> <<>>, mood |-> "",
     lucidityScore |-> 0, isProcessing |-> TRUE]

\* Mutant: [...prev, newDream]
AppendDream(newDream, prev) == prev \o <<newDream>>

\* [newDream, ...prev]
PrependDream(newDream, prev) == <<newDream>> \o prev

\* blobToBase64 resolved: the entry is built and inserted, the analysis starts.
\* t1 and t2 are the two readings of Date.now() in the object literal, taken
\* within the same millisecond; since the last recording the clock has stood
\* still or moved on.
InsertDream ==
    /\ reading > 0
    /\ reading' = reading - 1
    /\ \E t1 \in {t \in now..MaxClock : t <= now + 1} :
         \E t2 \in {t1} :
            /\ now' = t2
            /\ Commit(PrependDream(NewDream(t1, t2), dreams))
            /\ analyzing' = Append(analyzing, ToString(t1))
    /\ UNCHANGED <<mountVars, view, isProcessing, isRecording, orphans,
                   stopping, interpVars, cardVars>>

\* blobToBase64 rejected (reader.onerror): the handler ends with the rejection.
ReaderError ==
    /\ reading > 0
    /\ reading' = reading - 1
    /\ UNCHANGED <<mountVars, view, storeVars, isProcessing, isRecording,
                   orphans, stopping, analyzing, interpVars, cardVars, envVars>>

\* {...d, ...analysis, isProcessing: false} for the entries with newDream.id
PatchAnalysis(prev, id, analysis) ==
    [i \in 1..Len(prev) |->
        IF prev[i].id = id
        THEN IF autoTranscribe
             THEN Merge(Merge(prev[i], analysis), [isProcessing |-> FALSE])
             ELSE Merge(prev[i], [transcription |-> "Audio Log (Untranscribed)",
                                  mood |-> "Recorded", isProcessing |-> FALSE])
        ELSE prev[i]]

\* analyzeDreamAudio resolved, with the model's answer or with the fallback.
AnalysisResolved(n, analysis) ==
    /\ n \in 1..Len(analyzing)
    /\ Commit(PatchAnalysis(dreams, analyzing[n], analysis))
    /\ analyzing' = RemoveAt(analyzing, n)
    /\ isProcessing' = FALSE
    /\ LeaveView("list", PatchAnalysis(dreams, analyzing[n], analysis))
    /\ UNCHANGED <<mountVars, stopping, reading, interpVars, searchQuery,
                   edits, alerts, now>>

\* --------------------------------------------------------- interpretation
IsTruthy(r) == r # <<>> /\ r[1] # ""

\* prev.includes(id) ? prev.filter(dId => dId !== id) : [...prev, id]
ToggleId(prev, id) ==
    IF Includes(prev, id)
    THEN SelectSeq(prev, LAMBDA dId : dId # id)
    ELSE Append(prev, id)

\* A row of the interpretation view is clicked; the rows are rendered while
\* no result is shown.
toggleDreamSelection(i) ==
    /\ mountPc = "ready"
    /\ view = "interpretation" /\ ~IsTruthy(interpretationResult)
    /\ i \in 1..Len(dreams)
    /\ selectedDreamIds' = ToggleId(selectedDreamIds, dreams[i].id)
    /\ UNCHANGED <<mountVars, view, storeVars, isProcessing, recVars,
                   isInterpreting, interpretationResult, interpReqs,
                   cardVars, envVars>>

\* The action bar is rendered iff no result is shown and the selection is
\* not empty; its button is disabled while isInterpreting.
\* Mutant: the button is not disabled while isInterpreting.
InterpretButtonNeverDisabled ==
    /\ view = "interpretation"
    /\ ~IsTruthy(interpretationResult)
    /\ Len(selectedDreamIds) > 0

InterpretButtonEnabled ==
    /\ view = "interpretation"
    /\ ~IsTruthy(interpretationResult)
    /\ Len(selectedDreamIds) > 0
    /\ ~isInterpreting

handleInterpretSelected ==
    /\ mountPc = "ready"
    /\ InterpretButtonEnabled
    /\ Len(selectedDreamIds) # 0
    /\ isInterpreting' = TRUE
    /\ interpretationResult' = <<>>
    /\ interpReqs' = interpReqs + 1
    /\ UNCHANGED <<mountVars, view, storeVars, isProcessing, recVars,
                   selectedDreamIds, cardVars, envVars>>

\* interpretDreams: response.text || "Could not ...", or the catch branch.
\* text is <<>> when response.text is undefined.
\* Mutant: response.text is returned without the || fallback.
interpretDreamsNoFallback(throws, text) ==
    IF throws
    THEN "Failed to interpret dreams. Please try again."
    ELSE IF text # <<>> THEN text[1]
         ELSE "Could not generate interpretation."

interpretDreams(throws, text) ==
    IF throws
    THEN "Failed to interpret dreams. Please try again."
    ELSE IF IsTruthy(text) THEN text[1]
         ELSE "Could not generate interpretation."

ResponseTexts == {<<>>, <<"">>, <<"You long for freedom.">>}

InterpretResolved(throws, text) ==
    /\ interpReqs > 0
    /\ interpReqs' = interpReqs - 1
    /\ interpretationResult' = <<interpretDreams(throws, text)>>
    /\ isInterpreting' = FALSE
    /\ UNCHANGED <<mountVars, view, storeVars, isProcessing, recVars,
                   selectedDreamIds, cardVars, envVars>>

\* Mutant: closing the result also empties the selection.
CloseResultAndDeselect ==
    /\ view = "interpretation" /\ IsTruthy(interpretationResult)
    /\ interpretationResult' = <<>>
    /\ selectedDreamIds' = <<>>
    /\ UNCHANGED <<mountVars, view, storeVars, isProcessing, recVars,
                   isInterpreting, interpReqs, cardVars, envVars>>

\* "Close & Select Others": setInterpretationResult(null)
CloseResult ==
    /\ view = "interpretation" /\ IsTruthy(interpretationResult)
    /\ interpretationResult' = <<>>
    /\ UNCHANGED <<mountVars, view, storeVars, isProcessing, recVars,
                   selectedDreamIds, isInterpreting, interpReqs, cardVars,
                   envVars>>

\* ------------------------------------------------------------- DreamCard
\* The cards are rendered in the list view, one per entry that passes the
\* filter; a card is named by the entry's position counted from the oldest
\* entry, which inserts leave alone.
CardsMounted == mountPc = "ready" /\ view = "list"

Pos(i) == Len(dreams) - i + 1

CardMounted(i) ==
    /\ CardsMounted
    /\ i \in 1..Len(dreams)
    /\ filtered(<<dreams[i]>>, searchQuery) # <<>>

\* setDreams(prev => prev.map(...)), and the render of the list that follows,
\* from the card states gen and the outstanding calls reqs.
handleUpdateDream(updatedDream, gen, reqs) ==
    /\ Commit(UpdateById(dreams, updatedDream))
    /\ RenderWith(gen, reqs, UpdateById(dreams, updatedDream), view,
                  searchQuery)

\* The textarea loses focus with a text that differs from the entry's.
handleTranscriptionBlur(i, editedTranscription) ==
    /\ CardMounted(i)
    /\ edits < MaxEdits /\ edits' = edits + 1
    /\ editedTranscription # dreams[i].transcription
    /\ handleUpdateDream(
          Merge(dreams[i], [transcription |-> editedTranscription]),
          generating, imgReqs)
    /\ UNCHANGED <<mountVars, view, isProcessing, recVars, interpVars,
                   searchQuery, alerts, now>>

\* Mutant: a tag the entry has is not added again.
WithTagOnce(dream, tag) ==
    IF Includes(dream.tags, tag) THEN dream
    ELSE Merge(dream, [tags |-> Append(dream.tags, tag)])

\* {...dream, tags: [...dream.tags, tag]}
WithTag(dream, tag) ==
    Merge(dream, [tags |-> Append(dream.tags, tag)])

\* {...dream, tags: dream.tags.filter(t => t !== tagToRemove)}
WithoutTag(dream, tagToRemove) ==
    Merge(dream, [tags |-> SelectSeq(dream.tags, LAMBDA t : t # tagToRemove)])

\* The tag form is submitted with newTag in its box.
addTag(i, newTag) ==
    /\ CardMounted(i)
    /\ edits < MaxEdits /\ edits' = edits + 1
    /\ trim(newTag) # ""
    /\ handleUpdateDream(WithTag(dreams[i], trim(newTag)), generating, imgReqs)
    /\ UNCHANGED <<mountVars, view, isProcessing, recVars, interpVars,
                   searchQuery, alerts, now>>

\* The X of one rendered tag is clicked.
removeTag(i, tagToRemove) ==
    /\ CardMounted(i)
    /\ edits < MaxEdits /\ edits' = edits + 1
    /\ Includes(dreams[i].tags, tagToRemove)
    /\ handleUpdateDream(WithoutTag(dreams[i], tagToRemove), generating,
                         imgReqs)
    /\ UNCHANGED <<mountVars, view, isProcessing, recVars, interpVars,
                   searchQuery, alerts, now>>

\* Visualize (disabled while isGeneratingImg) or Regenerate (never disabled).
\* The call keeps the dream prop and the text of the render it was made in.
handleGenerateImage(i) ==
    /\ CardMounted(i)
    /\ edits < MaxEdits /\ edits' = edits + 1
    /\ "generatedImage" \in DOMAIN dreams[i] \/ Pos(i) \notin generating
    /\ generating' = generating \cup {Pos(i)}
    /\ imgReqs' = Append(imgReqs,
          [dream |-> dreams[i], editedTranscription |-> dreams[i].transcription,
           pos |-> Pos(i), mounted |-> TRUE])
    /\ UNCHANGED <<mountVars, view, storeVars, isProcessing, recVars,
                   interpVars, searchQuery, alerts, envVars>>

\* Mutant: the continuation runs only while its card is still mounted.
ImageResolvedIfMounted(n, ok) ==
    /\ n \in 1..Len(imgReqs)
    /\ IF ok /\ imgReqs[n].mounted
       THEN /\ handleUpdateDream(
                  Merge(imgReqs[n].dream,
                        [transcription |-> imgReqs[n].editedTranscription,
                         generatedImage |-> ImagePayload]),
                  generating \ {imgReqs[n].pos}, RemoveAt(imgReqs, n))
            /\ UNCHANGED alerts
       ELSE /\ imgReqs' = RemoveAt(imgReqs, n)
            /\ generating' = IF imgReqs[n].mounted
                             THEN generating \ {imgReqs[n].pos} ELSE generating
            /\ alerts' = IF imgReqs[n].mounted THEN alerts + 1 ELSE alerts
            /\ UNCHANGED <<storeVars, prevSession>>
    /\ UNCHANGED <<mountVars, view, isProcessing, recVars, interpVars,
                   searchQuery, edits, now>>

\* Mutant: a call that resolved to null ends without a notice.
ImageResolvedSilently(n, ok) ==
    /\ n \in 1..Len(imgReqs)
    /\ IF ok
       THEN /\ handleUpdateDream(
                  Merge(imgReqs[n].dream,
                        [transcription |-> imgReqs[n].editedTranscription,
                         generatedImage |-> ImagePayload]),
                  IF imgReqs[n].mounted
                  THEN generating \ {imgReqs[n].pos} ELSE generating,
                  RemoveAt(imgReqs, n))
            /\ UNCHANGED alerts
       ELSE /\ imgReqs' = RemoveAt(imgReqs, n)
            /\ generating' = IF imgReqs[n].mounted
                             THEN generating \ {imgReqs[n].pos} ELSE generating
            /\ UNCHANGED alerts
            /\ UNCHANGED <<storeVars, prevSession>>
    /\ UNCHANGED <<mountVars, view, isProcessing, recVars, interpVars,
                   searchQuery, edits, now>>

\* generateDreamImage resolved, with an image or with null:
\* setIsGeneratingImg(false), then onUpdate(...) or alert(...).
ImageResolved(n, ok) ==
    /\ n \in 1..Len(imgReqs)
    /\ IF ok
       THEN /\ handleUpdateDream(
                  Merge(imgReqs[n].dream,
                        [transcription |-> imgReqs[n].editedTranscription,
                         generatedImage |-> ImagePayload]),
                  IF imgReqs[n].mounted
                  THEN generating \ {imgReqs[n].pos} ELSE generating,
                  RemoveAt(imgReqs, n))
            /\ UNCHANGED alerts
       ELSE /\ imgReqs' = RemoveAt(imgReqs, n)
            /\ generating' = IF imgReqs[n].mounted
                             THEN generating \ {imgReqs[n].pos} ELSE generating
            /\ alerts' = alerts + 1
            /\ UNCHANGED <<storeVars, prevSession>>
    /\ UNCHANGED <<mountVars, view, isProcessing, recVars, interpVars,
                   searchQuery, edits, now>>

\* ------------------------------------------------------------ search box
\* onChange of the search input, or its X button (query "").
setSearchQuery(query) ==
    /\ CardsMounted
    /\ edits < MaxEdits /\ edits' = edits + 1
    /\ query # searchQuery
    /\ searchQuery' = query
    /\ RenderWith(generating, imgReqs, dreams, view, query)
    /\ UNCHANGED <<mountVars, view, storeVars, isProcessing, recVars,
                   interpVars, alerts, envVars>>

\* ------------------------------------------------------------------- next
MountNext ==
    \/ LoadEffect
    \/ SaveEffect
    \/ Rerender
    \/ Reload

RecorderNext ==
    \/ \E v \in Views : Navigate(v)
    \/ startRecording
    \/ stopRecording
    \/ TrackEnded
    \/ onstop
    \/ InsertDream
    \/ ReaderError
    \/ \E n \in 1..MaxDreams, a \in {RealAnalysis, FallbackAnalysis} :
          AnalysisResolved(n, a)

InterpNext ==
    \/ \E i \in 1..MaxDreams : toggleDreamSelection(i)
    \/ handleInterpretSelected
    \/ \E throws \in BOOLEAN, text \in ResponseTexts :
          InterpretResolved(throws, text)
    \/ CloseResult

CardNext ==
    \/ \E i \in 1..MaxDreams, t \in UserTexts : handleTranscriptionBlur(i, t)
    \/ \E i \in 1..MaxDreams, t \in NewTagInputs : addTag(i, t)
    \/ \E i \in 1..MaxDreams, t \in UserTags \cup {"Flying", "Error"} :
          removeTag(i, t)
    \/ \E i \in 1..MaxDreams : handleGenerateImage(i)
    \/ \E n \in 1..MaxEdits, ok \in BOOLEAN : ImageResolved(n, ok)

ListNext == \E q \in Queries : setSearchQuery(q)

Next == MountNext \/ RecorderNext \/ InterpNext \/ CardNext \/ ListNext

\* The whole application.
Spec == Init /\ [][Next]_vars

\* The store and everything that writes it; the interpretation workflow and
\* the search box, which never write the store, are left idle.
SpecStore == Init /\ [][MountNext \/ RecorderNext \/ CardNext]_vars

\* One page session of the recorder, with what the platform guarantees: a
\* queued effect, render or event is run, a FileReader ends with loadend or
\* error, and the analysis call settles.  The user and the devices owe nothing.
SessionNext == LoadEffect \/ SaveEffect \/ Rerender \/ RecorderNext

SpecSession ==
    /\ Init
    /\ [][SessionNext]_vars
    /\ WF_vars(LoadEffect \/ SaveEffect \/ Rerender)
    /\ WF_vars(onstop)
    /\ WF_vars(InsertDream \/ ReaderError)
    /\ WF_vars(\E n \in 1..MaxDreams, a \in {RealAnalysis, FallbackAnalysis} :
                  AnalysisResolved(n, a))

\* The view controller and the interpretation workflow; the cards, which
\* write neither, are left alone.
SpecInterp == Init /\ [][MountNext \/ RecorderNext \/ InterpNext]_vars

\* The list view over a journal kept on earlier days: entries of two
\* calendar days, analysed, one of them edited and illustrated.
SampleEntries ==
    <<[id |-> ToString(MsPerDay + 1), timestamp |-> MsPerDay + 1,
       audioBase64 |-> AudioPayload, transcription |-> "edited",
       tags |-> <<"Flying", "Water">>, mood |-> "Calm", lucidityScore |-> 7,
       isProcessing |-> FALSE, generatedImage |-> ImagePayload],
      Merge(Merge(NewDream(1, 1), FallbackAnalysis), [isProcessing |-> FALSE]),
      Merge(Merge(NewDream(0, 0), RealAnalysis), [isProcessing |-> FALSE])>>

\* The journals of one or two of these entries, newest first, and the
\* empty journal.
SampleStores ==
    {<<>>}
    \cup {<<SampleEntries[i]>> : i \in 1..Len(SampleEntries)}
    \cup UNION {{<<SampleEntries[i], SampleEntries[j]>> :
                   j \in (i + 1)..Len(SampleEntries)} :
                i \in 1..Len(SampleEntries)}

SampleQueries ==
    {"", "FLY", "LATER", "err", "g w", "friday", "january", "zzz"}

InitList ==
    /\ mountPc = "ready"
    /\ queued = NoUpdate
    /\ view = "list"
    /\ dreams \in SampleStores
    /\ storage = JSONstringify(dreams)
    /\ isProcessing = FALSE
    /\ isRecording = FALSE
    /\ orphans = 0
    /\ stopping = 0
    /\ reading = 0
    /\ analyzing = <<>>
    /\ selectedDreamIds = <<>>
    /\ isInterpreting = FALSE
    /\ interpretationResult = <<>>
    /\ interpReqs = 0
    /\ searchQuery \in SampleQueries
    /\ imgReqs = <<>>
    /\ generating = {}
    /\ edits = 0
    /\ alerts = 0
    /\ prevSession = NoUpdate
    /\ now = IF dreams = <<>> THEN 0 ELSE dreams[1].timestamp

SpecList ==
    InitList /\ [][ListNext \/ CardNext \/ \E v \in Views : Navigate(v)]_vars

\* ================================================================= claims
\* The entry at position k counted from the oldest entry; inserts prepend,
\* so the position of an entry never changes.
EntryAt(ds, k) == ds[Len(ds) - k + 1]

\* C1: for every recording completion the new entry is in the store with
\* isProcessing = TRUE in every state in which its analysis call is still
\* outstanding, and once the call has resolved (with the analysis or with the
\* fallback) the entry has isProcessing = FALSE in every later state.
C1_PendingExactlyUntilResolved ==
    /\ [](\A i \in 1..Len(dreams) :
             Includes(analyzing, dreams[i].id) => dreams[i].isProcessing)
    /\ [][\A k \in 1..Len(dreams) :
             (/\ k <= Len(dreams')
              /\ ~EntryAt(dreams, k).isProcessing)
             => ~EntryAt(dreams', k).isProcessing]_vars

\* C2: at rest (the mount sequence has run), the collection persisted under
\* 'dream_journal' is the text of the in-memory collection and parses back to
\* it, after every insert, analysis patch, user edit and illustration update.
C2_WriteThrough ==
    mountPc = "ready" =>
        /\ storage = JSONstringify(dreams)
        /\ JSONparse(storage).ok
        /\ JSONparse(storage).value = dreams

\* An illustration update on a store of two entries has been persisted.
C2_Witness ==
    /\ mountPc = "ready"
    /\ Len(dreams) = 2
    /\ \E i \in 1..Len(dreams) : "generatedImage" \in DOMAIN dreams[i]
    /\ \E i \in 1..Len(dreams) : ~dreams[i].isProcessing
    /\ JSONparse(storage).value = dreams

\* C3: no two entries of the store have the same id.
C3_UniqueIds ==
    \A i, j \in 1..Len(dreams) : i # j => dreams[i].id # dreams[j].id

\* C4: at most one interpretDreams call is outstanding, isInterpreting is
\* true exactly while one is, and while it is true handleInterpretSelected
\* cannot be run, in whatever view and with whatever selection.
C4_OneInterpretation ==
    /\ interpReqs <= 1
    /\ isInterpreting <=> interpReqs = 1
    /\ isInterpreting => ~ENABLED handleInterpretSelected

\* A request is outstanding while the action bar is rendered with a
\* selection: only the disabled button keeps a second request away.
C4_Witness ==
    /\ interpReqs = 1
    /\ view = "interpretation"
    /\ Len(selectedDreamIds) > 0
    /\ ~IsTruthy(interpretationResult)

\* C5: a request starts only from idle with a non-empty selection and sets
\* the result to null; the step in which the call resolves leaves a result
\* that is a non-empty string (the text or one of the fixed failure strings)
\* and isInterpreting false.
C5_InterpretationCycle ==
    [][/\ interpReqs' > interpReqs =>
            /\ ~isInterpreting /\ Len(selectedDreamIds) > 0
            /\ isInterpreting' /\ interpretationResult' = <<>>
       /\ (interpReqs' < interpReqs /\ mountPc' = "ready") =>
            /\ ~isInterpreting'
            /\ interpretationResult' # <<>>
            /\ interpretationResult'[1] # ""
            /\ interpretationResult'[1] \in
                  {"Failed to interpret dreams. Please try again.",
                   "Could not generate interpretation."}
                  \cup {t[1] : t \in ResponseTexts \ {<<>>, <<"">>}}
      ]_vars

\* A call resolved with an empty response.text: the fixed string is shown.
C5_Witness ==
    /\ interpretationResult = <<"Could not generate interpretation.">>
    /\ ~isInterpreting
    /\ interpReqs = 0
    /\ Len(selectedDreamIds) > 0

\* C6: within one page session the selection changes only in a step of
\* toggleDreamSelection; closing a result, navigating, starting or completing
\* a request and every store mutation leave selectedDreamIds as it is.
C6_SelectionFrame ==
    [][selectedDreamIds' # selectedDreamIds =>
          \/ \E i \in 1..MaxDreams : toggleDreamSelection(i)
          \/ Reload]_vars

\* A selection of two entries is still there after a request completed, the
\* user went to the list and an illustration was written to the store.
C6_Witness ==
    /\ Len(selectedDreamIds) = 2
    /\ IsTruthy(interpretationResult)
    /\ view = "list"
    /\ \E i \in 1..Len(dreams) : "generatedImage" \in DOMAIN dreams[i]

C8_RecordingForcesList ==
    [](reading > 0 => <>(view = "list"))

\* C9: when the page is closed at rest and opened again, the collection in
\* memory once the mount sequence has run is the collection that was in
\* memory before: same entries, same order, same fields.
C9_ReloadRoundTrip ==
    (mountPc = "ready" /\ prevSession.set) => dreams = prevSession.value

\* A store of two entries, one with an illustration, came back from storage.
C9_Witness ==
    /\ mountPc = "ready"
    /\ prevSession.set
    /\ Len(dreams) = 2
    /\ \E i \in 1..Len(dreams) : "generatedImage" \in DOMAIN dreams[i]
    /\ \E i \in 1..Len(dreams) : Len(dreams[i].tags) > 0

\* The persisted record as the load effect found it: none, or text that
\* JSON.parse rejects.
AbsentOrUnparsable(saved) ==
    saved = NoRecord \/ ~JSONparse(saved).ok

\* C10: the load effect never takes the application down; after it has run
\* on an absent or unparsable record nothing is queued, the collection is
\* empty, and the next step of the mount sequence leaves the application at
\* rest with the empty collection.
C10_LoadFallsBackToEmpty ==
    /\ mountPc # "crashed"
    /\ (mountPc = "saveEffect" /\ AbsentOrUnparsable(storage)) =>
          /\ queued = NoUpdate
          /\ dreams = <<>>
          /\ ENABLED (SaveEffect /\ mountPc' = "ready" /\ dreams' = <<>>)

\* The load effect has run on text that does not parse.
C10_Witness ==
    /\ mountPc = "saveEffect"
    /\ storage = Garbage
    /\ queued = NoUpdate

\* part occurs in whole: whole is some text, then part, then some text.
IsSubstring(part, whole) ==
    \E a \in 0..Len(whole) : \E b \in a..Len(whole) :
        SubSeq(whole, a + 1, b) = part

\* What C11 asks of an entry for the query typed.
Matches(d, query) ==
    LET q == toLowerCase(Chars(query))
    IN  \/ query = ""
        \/ IsSubstring(q, toLowerCase(Chars(d.transcription)))
        \/ IsSubstring(q, toLowerCase(join(d.tags, <<" ">>)))
        \/ IsSubstring(q, toLowerCase(toLocaleDateString(d.timestamp)))

\* C11: the filtered list is the store's entries, in store order, for which
\* the query is empty or its lower-cased text occurs in the lower-cased
\* transcription, in the lower-cased space-joined tags or in the lower-cased
\* long date; with the empty query it is the whole store.
C11_FilterContract ==
    /\ filtered(dreams, searchQuery)
          = SelectSeq(dreams, LAMBDA d : Matches(d, searchQuery))
    /\ filtered(dreams, "") = dreams
    /\ \A i \in 1..Len(dreams) :
          Passes(dreams[i], searchQuery) <=> Matches(dreams[i], searchQuery)

\* An upper-case query was typed over two entries and keeps exactly the one
\* that has the word in a tag only, written with a capital.
C11_Witness ==
    /\ view = "list" /\ edits > 0
    /\ searchQuery = "FLY"
    /\ Len(dreams) = 2
    /\ Len(filtered(dreams, searchQuery)) = 1
    /\ \E i \in 1..Len(dreams) :
          /\ Passes(dreams[i], searchQuery)
          /\ Includes(dreams[i].tags, "Flying")
          /\ ~IsSubstring(toLowerCase(Chars(searchQuery)),
                          toLowerCase(Chars(dreams[i].transcription)))

NewestFirst(ds) ==
    \A i, j \in 1..Len(ds) : i < j => ds[i].timestamp >= ds[j].timestamp

\* The date labels of the entries of ds, each once, in the order in which a
\* pass from left to right meets them.
FirstSeenLabels(ds) ==
    LET label(i) == toLocaleDateString(ds[i].timestamp)
        firsts == {i \in 1..Len(ds) : \A j \in 1..(i - 1) : label(j) # label(i)}
    IN  [k \in 1..Cardinality(firsts) |->
            label(CHOOSE i \in firsts :
                     Cardinality({j \in firsts : j <= i}) = k)]

\* C12: no group of the grouped list is empty; over a newest-first store no
\* date label is the label of two groups; and the labels of the groups are
\* the labels of the filtered entries in first-seen order.
C12_GroupingContract ==
    LET groups == groupedDreams(dreams, searchQuery)
    IN  /\ \A g \in 1..Len(groups) : Len(groups[g].dreams) > 0
        /\ NewestFirst(dreams) =>
              \A g, h \in 1..Len(groups) :
                  g # h => groups[g].date # groups[h].date
        /\ [g \in 1..Len(groups) |-> groups[g].date]
              = FirstSeenLabels(filtered(dreams, searchQuery))

\* Two entries of one calendar day pass the query in the search box, one of
\* them after an edit: one group of two.
C12_Witness ==
    /\ view = "list" /\ edits > 0
    /\ searchQuery # ""
    /\ Len(dreams) = 2
    /\ NewestFirst(dreams)
    /\ Len(filtered(dreams, searchQuery)) = 2
    /\ Len(groupedDreams(dreams, searchQuery)) = 1
    /\ Len(groupedDreams(dreams, searchQuery)[1].dreams) = 2

\* C13: in the list view 'The void is silent.' is shown iff the store is
\* empty, 'No dreams found.' iff the store is not empty and no group is
\* left; never both, and neither when there is a group.
C13_EmptyStates ==
    view = "list" =>
        LET body == ListBody(dreams, searchQuery)
            groups == groupedDreams(dreams, searchQuery)
        IN  /\ "The void is silent." \in body <=> Len(dreams) = 0
            /\ "No dreams found." \in body
                  <=> (Len(dreams) > 0 /\ Len(groups) = 0)
            /\ ~({"The void is silent.", "No dreams found."} \subseteq body)
            /\ Len(groups) > 0 =>
                  body \cap {"The void is silent.", "No dreams found."} = {}

\* The store is empty and a query was typed into the search box: the void
\* state.
C13_Witness ==
    /\ view = "list" /\ edits > 0
    /\ Len(dreams) = 0
    /\ searchQuery # ""
    /\ ListBody(dreams, searchQuery) = {"The void is silent."}

\* The tags that occur.
TagUniverse == {"Flying", "Error", "Water"}

\* C14: on every entry of the store, removing a tag the entry does not have
\* leaves the entry as it is, removing a tag twice gives what removing it
\* once gives, and adding a tag appends it, also when the entry has it.
C14_TagEditing ==
    \A i \in 1..Len(dreams) : \A t \in TagUniverse :
        /\ ~Includes(dreams[i].tags, t) => WithoutTag(dreams[i], t) = dreams[i]
        /\ WithoutTag(WithoutTag(dreams[i], t), t) = WithoutTag(dreams[i], t)
        /\ WithTag(dreams[i], t).tags = Append(dreams[i].tags, t)
        /\ [WithTag(dreams[i], t) EXCEPT !.tags = dreams[i].tags] = dreams[i]

\* addTag was run with a tag the entry had: the store holds it twice.
C14_Witness ==
    /\ edits > 0
    /\ \E i \in 1..Len(dreams) :
          \E a, b \in 1..Len(dreams[i].tags) :
              a < b /\ dreams[i].tags[a] = dreams[i].tags[b]

\* C15: a step in which an illustration call resolves to null shows one
\* notice and changes neither the collection (the entry's illustration and
\* its transcription stay as they were) nor the persisted record; a notice is
\* shown in no other step.
C15_IllustrationFailure ==
    [][/\ \A n \in 1..Len(imgReqs) :
             ImageResolved(n, FALSE) =>
                 /\ alerts' = alerts + 1
                 /\ dreams' = dreams
                 /\ storage' = storage
       /\ alerts' > alerts =>
             /\ Len(imgReqs') = Len(imgReqs) - 1
             /\ dreams' = dreams
             /\ storage' = storage
      ]_vars

\* A transcription was edited, an illustration was asked for and the call
\* resolved to null: the edit is persisted, no illustration, one notice.
C15_Witness ==
    /\ alerts = 1
    /\ imgReqs = <<>>
    /\ \E i \in 1..Len(dreams) :
          /\ dreams[i].transcription \in UserTexts
          /\ "generatedImage" \notin DOMAIN dreams[i]
          /\ dreams[i].id = ToString(0)
    /\ storage = JSONstringify(dreams)

ChangedFields(old, new) ==
    {f \in DOMAIN old \cup DOMAIN new :
        f \notin DOMAIN old \/ f \notin DOMAIN new \/ old[f] # new[f]}

\* C16: a step of handleUpdateDream (a card edit or an illustration written)
\* keeps the length and the order of the collection, changes one entry at
\* most, and in that entry only the fields of the patch: the transcription,
\* or the tags, or the transcription and the illustration.
C16_UpdateFrame ==
    [][(/\ mountPc = "ready" /\ mountPc' = "ready"
        /\ analyzing' = analyzing
        /\ Len(dreams') = Len(dreams)
        /\ dreams' # dreams)
       => \E k \in 1..Len(dreams) :
             /\ \A j \in 1..Len(dreams) : j # k => dreams'[j] = dreams[j]
             /\ dreams'[k].id = dreams[k].id
             /\ LET changed == ChangedFields(dreams[k], dreams'[k])
                IN  IF Len(imgReqs') < Len(imgReqs)
                    THEN changed \subseteq {"transcription", "generatedImage"}
                    ELSE \/ changed \subseteq {"transcription"}
                         \/ changed \subseteq {"tags"}
      ]_vars

\* C17: every entry of the collection with isProcessing = TRUE has an
\* analyzeDreamAudio call outstanding, also after a reload.
C17_PendingHasCall ==
    \A i \in 1..Len(dreams) :
        dreams[i].isProcessing => Includes(analyzing, dreams[i].id)

\* C18: the step that inserts a recording puts the new entry first and
\* leaves the entries that were there behind it, in their order; and in
\* every state the collection is ordered newest first by timestamp.
C18_PrependNewestFirst ==
    /\ [][(mountPc = "ready" /\ Len(dreams') > Len(dreams)) =>
             /\ Tail(dreams') = dreams
             /\ dreams'[1].timestamp = now'
             /\ dreams'[1].isProcessing]_vars
    /\ []NewestFirst(dreams)

\* Two recordings of different milliseconds, the older one illustrated after
\* the newer one was inserted in front of it.
C18_Witness ==
    /\ Len(dreams) = 2
    /\ dreams[1].timestamp > dreams[2].timestamp
    /\ "generatedImage" \in DOMAIN dreams[2]
    /\ ~dreams[1].isProcessing

\* C19: no two outstanding generateDreamImage calls were made for the same
\* entry.
C19_OneIllustrationPerEntry ==
    \A n, m \in 1..Len(imgReqs) :
        n # m => imgReqs[n].pos # imgReqs[m].pos

\* Where in ds the entries with the given id are.
EntriesOf(ds, id) == {k \in 1..Len(ds) : ds[k].id = id}

\* C20: an outstanding call can always resolve, whatever the view and whether
\* or not its card is mounted; the step in which an illustration call of an
\* unmounted card resolves with an image writes the image to the entry, and
\* the step in which an analysis call resolves clears the entry's
\* isProcessing, and both leave the collection persisted.
C20_NoCancellation ==
    /\ [](/\ \A n \in 1..Len(imgReqs) : ENABLED ImageResolved(n, TRUE)
          /\ \A n \in 1..Len(analyzing) :
                ENABLED AnalysisResolved(n, RealAnalysis))
    /\ [][/\ \A n \in 1..Len(imgReqs) :
                (ImageResolved(n, TRUE) /\ ~imgReqs[n].mounted) =>
                    /\ \A k \in EntriesOf(dreams', imgReqs[n].dream.id) :
                          /\ "generatedImage" \in DOMAIN dreams'[k]
                          /\ dreams'[k].generatedImage = ImagePayload
                    /\ EntriesOf(dreams', imgReqs[n].dream.id) # {}
                    /\ storage' = JSONstringify(dreams')
          /\ \A n \in 1..Len(analyzing) :
                AnalysisResolved(n, RealAnalysis) =>
                    /\ \A k \in EntriesOf(dreams', analyzing[n]) :
                          /\ ~dreams'[k].isProcessing
                          /\ dreams'[k].transcription
                                = RealAnalysis.transcription
                    /\ EntriesOf(dreams', analyzing[n]) # {}
                    /\ storage' = JSONstringify(dreams')
         ]_vars

\* The user left the list while an illustration call was outstanding for an
\* entry without illustration: the call can resolve, and writes the image.
C20_Witness ==
    /\ view = "home"
    /\ \E n \in 1..Len(imgReqs) :
          /\ ~imgReqs[n].mounted
          /\ \A k \in EntriesOf(dreams, imgReqs[n].dream.id) :
                "generatedImage" \notin DOMAIN dreams[k]
          /\ ENABLED (/\ ImageResolved(n, TRUE)
                      /\ \E k \in EntriesOf(dreams', imgReqs[n].dream.id) :
                            "generatedImage" \in DOMAIN dreams'[k]
                      /\ storage' = JSONstringify(dreams'))

\* C21: the step in which an illustration call resolves with an image leaves
\* the tags and the transcription of the entry as the store has them: what
\* was edited while the call was outstanding is still there.
C21_NoLostUpdate ==
    [][\A n \in 1..Len(imgReqs) :
          ImageResolved(n, TRUE) =>
              \A k \in EntriesOf(dreams, imgReqs[n].dream.id) :
                  /\ dreams'[k].tags = dreams[k].tags
                  /\ dreams'[k].transcription = dreams[k].transcription
      ]_vars

\* C22: whenever isProcessing is true it is false again later.
C22_ProcessingReleased ==
    [](isProcessing => <>(~isProcessing))

\* C23: from the moment the page is opened over the record a session left
\* until the mount sequence has run, the persisted record parses and holds
\* at least as many entries as that session left.
C23_MountKeepsRecord ==
    prevSession.set =>
        /\ JSONparse(storage).ok
        /\ Len(JSONparse(storage).value) >= Len(prevSession.value)
=============================================================================
